---- MODULE Spec2Model ----
(***************************************************************************)
(* Model of the Smart Content Analyzer API: the Model Host (api/ml_logic.py)*)
(* and the Request Gateway (api/main.py).                                   *)
(*                                                                          *)
(* Strings are sequences of tokens.  A token is an indivisible chunk of     *)
(* characters; the marker "Error:" is one token and no other token contains *)
(* it, so Python's substring test  "Error:" in s  is membership of the      *)
(* marker among the tokens of s, f-string formatting is concatenation and   *)
(* "; ".join is concatenation with a separator token.                       *)
(*                                                                          *)
(* The two module globals hold None or a reference to a constructed object; *)
(* a reference is the serial number of the constructor call that made it.   *)
(***************************************************************************)
EXTENDS Naturals, Sequences, FiniteSets

\* ---------------------------------------------------------------- bounds
MaxLoads == 3
MaxRequests == 2

\* ------------------------------------------------------------- constants
None == 0
DefaultMaxSummaryLength == 150
DefaultMinSummaryLength == 30

Marker == "Error:"

\* Exception classes a provider or a constructor can raise (subclasses of
\* Exception, the class both except clauses name).
ExceptionTypes == {"RuntimeError", "ValueError"}

\* Request texts: plain, empty, and one that itself holds the marker.
Texts == {<<"hello world">>, <<>>, <<"log says ", "Error:", " disk full">>}

MaxLengths == {DefaultMaxSummaryLength, 20}
MinLengths == {DefaultMinSummaryLength}

Endpoints == {"/summarize", "/extract_tags", "/analyze"}

\* What the summarization pipeline can hand back for result[0]['summary_text'].
SummaryTexts == {<<"a short summary">>, <<>>, <<"the log reports ", "Error:", " disk full">>}

\* What the keyword extractor can hand back, scores already dropped by
\* [kw[0] for kw in keywords_with_scores]: ranked n-grams of word tokens.
KeywordLists ==
  { <<>>,
    << <<"disk">> >>,
    << <<"disk full">>, <<"log">> >> }

\* A provider call either returns a value or raises.
SummaryOutcomes ==
  [kind : {"return"}, value : SummaryTexts, type : {"-"}]
    \cup [kind : {"raise"}, value : {<<>>}, type : ExceptionTypes]

TagsOutcomes ==
  [kind : {"return"}, value : KeywordLists, type : {"-"}]
    \cup [kind : {"raise"}, value : {<<>>}, type : ExceptionTypes]

\* ------------------------------------------------------------- variables
VARIABLES
  summarization_pipeline_tf, \* ml_logic.py global: None or a pipeline reference
  kw_extractor,              \* ml_logic.py global: None or an extractor reference
  loadPc,                    \* position of the load_models call in flight
  loadReturn,                \* value returned by the last completed load_models
  loads,                     \* load_models calls started so far
  constructed,               \* constructor calls made so far (pipeline(...), KeywordExtractor(...))
  everSucceeded,             \* history: some load_models call has returned True
  noopLoads,                 \* history: load_models calls that found both loaded
  hPc,                       \* position of the request handler
  request,                   \* the request being handled: its endpoint and its TextInput fields
  summary,                   \* handler local: summary
  tags,                      \* handler local: tags
  calls,                     \* history: Model Host operations the handler has invoked
  response,                  \* the HTTP response of the request
  succAtGate,                \* history: everSucceeded when the readiness check ran
  nRequests                  \* requests received so far

hostVars == <<summarization_pipeline_tf, kw_extractor, loadPc, loadReturn,
              loads, constructed, everSucceeded, noopLoads>>
handlerVars == <<hPc, request, summary, tags, calls, response, succAtGate, nRequests>>
vars == <<summarization_pipeline_tf, kw_extractor, loadPc, loadReturn,
          loads, constructed, everSucceeded, noopLoads,
          hPc, request, summary, tags, calls, response, succAtGate, nRequests>>

\* --------------------------------------------------------------- strings
\* "tok" in s
Contains(s, tok) == \E i \in 1..Len(s) : s[i] = tok

\* sep.join(parts)
RECURSIVE Join(_, _)
Join(sep, parts) ==
  IF parts = <<>> THEN <<>>
  ELSE IF Len(parts) = 1 THEN parts[1]
  ELSE parts[1] \o <<sep>> \o Join(sep, Tail(parts))

\* ------------------------------------------------------------ Model Host
\* load_models, line 50: the idempotency test.
already_loaded_never == FALSE
already_loaded == summarization_pipeline_tf # None /\ kw_extractor # None

\* load_models, lines 79-84: the except clause's assignments to the globals.
ExceptReset_keeps_pipeline(p, k) == <<p, None>>
ExceptReset(p, k) == <<None, None>>

are_models_ready_either == summarization_pipeline_tf # None \/ kw_extractor # None
are_models_ready == summarization_pipeline_tf # None /\ kw_extractor # None

\* load_models is entered.  If both globals are set it returns True at once;
\* otherwise it enters the try block.
LoadBegin ==
  /\ loadPc = "idle"
  /\ loads < MaxLoads
  /\ loads' = loads + 1
  /\ IF already_loaded
       THEN /\ loadReturn' = "True"
            /\ everSucceeded' = TRUE
            /\ noopLoads' = noopLoads + 1
            /\ loadPc' = "idle"
       ELSE /\ loadPc' = "pipeline"
            /\ UNCHANGED <<loadReturn, everSucceeded, noopLoads>>
  /\ UNCHANGED <<summarization_pipeline_tf, kw_extractor, constructed>>
  /\ UNCHANGED handlerVars

\* lines 57-65: pipeline("summarization", ...) returns and is assigned.
LoadPipelineOk ==
  /\ loadPc = "pipeline"
  /\ constructed' = constructed + 1
  /\ summarization_pipeline_tf' = constructed + 1
  /\ loadPc' = "extractor"
  /\ UNCHANGED <<kw_extractor, loadReturn, loads, everSucceeded, noopLoads>>
  /\ UNCHANGED handlerVars

\* lines 57-65 raise; lines 79-84 run.
LoadPipelineRaise ==
  /\ loadPc = "pipeline"
  /\ constructed' = constructed + 1
  /\ summarization_pipeline_tf' = ExceptReset(summarization_pipeline_tf, kw_extractor)[1]
  /\ kw_extractor' = ExceptReset(summarization_pipeline_tf, kw_extractor)[2]
  /\ loadReturn' = "False"
  /\ loadPc' = "idle"
  /\ UNCHANGED <<loads, everSucceeded, noopLoads>>
  /\ UNCHANGED handlerVars

\* lines 69-77: yake.KeywordExtractor(...) returns, is assigned, return True.
LoadExtractorOk ==
  /\ loadPc = "extractor"
  /\ constructed' = constructed + 1
  /\ kw_extractor' = constructed + 1
  /\ loadReturn' = "True"
  /\ everSucceeded' = TRUE
  /\ loadPc' = "idle"
  /\ UNCHANGED <<summarization_pipeline_tf, loads, noopLoads>>
  /\ UNCHANGED handlerVars

\* lines 69-75 raise; lines 79-84 run.
LoadExtractorRaise ==
  /\ loadPc = "extractor"
  /\ constructed' = constructed + 1
  /\ summarization_pipeline_tf' = ExceptReset(summarization_pipeline_tf, kw_extractor)[1]
  /\ kw_extractor' = ExceptReset(summarization_pipeline_tf, kw_extractor)[2]
  /\ loadReturn' = "False"
  /\ loadPc' = "idle"
  /\ UNCHANGED <<loads, everSucceeded, noopLoads>>
  /\ UNCHANGED handlerVars

\* get_summary / get_tags, "except Exception as e": the classes the clause catches.
Catches_runtime_only(type) == type = "RuntimeError"
Catches(type) == type \in ExceptionTypes

SummaryUnavailable == <<Marker, " Summarization model is not available at the moment.">>
TagsUnavailable == <<Marker, " Tagging model is not available at the moment.">>

SummaryErrorSentinel(type) ==
  <<Marker, " Could not generate summary due to an internal issue (", type, ").">>
TagsErrorSentinel(type) ==
  <<Marker, " Could not extract tags due to an internal issue (", type, ").">>

\* The outcome of one Model Host operation as its caller sees it, with the
\* path taken through it: "unavailable" (the guard returned), "returned" (the
\* provider's value), "caught" (the except clause's sentinel) or "raised"
\* (the exception left the function).  inst is the provider object invoked,
\* None when none was.
get_summary(text, max_length, min_length, outcome) ==
  IF ~are_models_ready \/ summarization_pipeline_tf = None
    THEN [op |-> "get_summary", path |-> "unavailable", inst |-> None,
          value |-> SummaryUnavailable, type |-> "-",
          args |-> <<text, max_length, min_length>>]
  ELSE IF outcome.kind = "return"
    THEN [op |-> "get_summary", path |-> "returned", inst |-> summarization_pipeline_tf,
          value |-> outcome.value, type |-> "-",
          args |-> <<text, max_length, min_length>>]
  ELSE IF Catches(outcome.type)
    THEN [op |-> "get_summary", path |-> "caught", inst |-> summarization_pipeline_tf,
          value |-> SummaryErrorSentinel(outcome.type), type |-> outcome.type,
          args |-> <<text, max_length, min_length>>]
  ELSE [op |-> "get_summary", path |-> "raised", inst |-> summarization_pipeline_tf,
        value |-> <<>>, type |-> outcome.type,
        args |-> <<text, max_length, min_length>>]

get_tags(text, outcome) ==
  IF ~are_models_ready \/ kw_extractor = None
    THEN [op |-> "get_tags", path |-> "unavailable", inst |-> None,
          value |-> <<TagsUnavailable>>, type |-> "-", args |-> <<text>>]
  ELSE IF outcome.kind = "return"
    THEN [op |-> "get_tags", path |-> "returned", inst |-> kw_extractor,
          value |-> outcome.value, type |-> "-", args |-> <<text>>]
  ELSE IF Catches(outcome.type)
    THEN [op |-> "get_tags", path |-> "caught", inst |-> kw_extractor,
          value |-> <<TagsErrorSentinel(outcome.type)>>, type |-> outcome.type,
          args |-> <<text>>]
  ELSE [op |-> "get_tags", path |-> "raised", inst |-> kw_extractor,
        value |-> <<>>, type |-> outcome.type, args |-> <<text>>]

\* ------------------------------------------------------- Request Gateway
NoResponse == [status |-> 0]
NoRequest == [endpoint |-> "-", text |-> <<>>,
              max_summary_length |-> DefaultMaxSummaryLength,
              min_summary_length |-> DefaultMinSummaryLength]

HTTPException(status_code, detail) == [status |-> status_code, detail |-> detail]

\* An exception that leaves the handler: the framework answers 500 itself.
UnhandledError == [status |-> 500, unhandled |-> TRUE]

UnavailableDetail == <<"ML models are not available. Please try again later.">>

SummaryResponse_echoes_summary(original_text, s) ==
  [status |-> 200, original_text |-> s, summary |-> s]
SummaryResponse(original_text, s) ==
  [status |-> 200, original_text |-> original_text, summary |-> s]

TagsResponse(original_text, t) ==
  [status |-> 200, original_text |-> original_text, tags |-> t]

AnalysisResponse(original_text, s, t) ==
  [status |-> 200, original_text |-> original_text, summary |-> s, tags |-> t]

\* The readiness test that opens each of the three handlers.
GatewayReady_pipeline_only == summarization_pipeline_tf # None
GatewayReady == are_models_ready

\* summarize_text_endpoint, lines 81-83
summarize_result(text, s) ==
  IF Contains(s, Marker)
    THEN HTTPException(500, s)
    ELSE SummaryResponse(text, s)

\* extract_tags_endpoint, lines 91-93
extract_tags_result(text, t) ==
  IF t # <<>> /\ Contains(t[1], Marker)
    THEN HTTPException(500, t[1])
    ELSE TagsResponse(text, t)

\* analyze_text_endpoint, lines 102-108
summary_failed(s) == Contains(s, Marker)
tags_failed(t) == t # <<>> /\ Contains(t[1], Marker)

error_details(s, t) ==
  (IF summary_failed(s) THEN << <<"Summarization failed: ">> \o s >> ELSE <<>>)
    \o (IF tags_failed(t) THEN << <<"Tagging failed: ">> \o t[1] >> ELSE <<>>)

analyze_result(text, s, t) ==
  IF error_details(s, t) # <<>>
    THEN HTTPException(500, Join("; ", error_details(s, t)))
    ELSE AnalysisResponse(text, s, t)

\* Where a handler goes once its readiness test has passed, and once
\* get_summary has returned.
FirstCall(endpoint) == IF endpoint = "/extract_tags" THEN "get_tags" ELSE "get_summary"

AfterSummary_short_circuit(endpoint, s) ==
  IF endpoint = "/analyze" /\ ~Contains(s, Marker) THEN "get_tags" ELSE "respond"
AfterSummary(endpoint, s) ==
  IF endpoint = "/analyze" THEN "get_tags" ELSE "respond"

\* A request with a valid body arrives at one of the three POST endpoints.
Receive ==
  /\ hPc \in {"idle", "done"}
  /\ nRequests < MaxRequests
  /\ nRequests' = nRequests + 1
  /\ \E e \in Endpoints, t \in Texts, mx \in MaxLengths, mn \in MinLengths :
       request' = [endpoint |-> e, text |-> t,
                   max_summary_length |-> mx, min_summary_length |-> mn]
  /\ hPc' = "gate"
  /\ summary' = <<>>
  /\ tags' = <<>>
  /\ calls' = <<>>
  /\ response' = NoResponse
  /\ succAtGate' = FALSE
  /\ UNCHANGED hostVars

\* if not are_models_ready(): raise HTTPException(503, ...)
Gate ==
  /\ hPc = "gate"
  /\ succAtGate' = everSucceeded
  /\ IF GatewayReady
       THEN /\ hPc' = FirstCall(request.endpoint)
            /\ UNCHANGED response
       ELSE /\ hPc' = "done"
            /\ response' = HTTPException(503, UnavailableDetail)
  /\ UNCHANGED <<request, summary, tags, calls, nRequests>>
  /\ UNCHANGED hostVars

\* summary = get_summary(payload.text, payload.max_summary_length, payload.min_summary_length)
CallSummary ==
  /\ hPc = "get_summary"
  /\ \E o \in SummaryOutcomes :
       LET r == get_summary(request.text, request.max_summary_length,
                            request.min_summary_length, o)
       IN /\ calls' = Append(calls, r)
          /\ IF r.path = "raised"
               THEN /\ hPc' = "done"
                    /\ response' = UnhandledError
                    /\ UNCHANGED summary
               ELSE /\ summary' = r.value
                    /\ hPc' = AfterSummary(request.endpoint, r.value)
                    /\ UNCHANGED response
  /\ UNCHANGED <<request, tags, succAtGate, nRequests>>
  /\ UNCHANGED hostVars

\* tags = get_tags(payload.text)
CallTags ==
  /\ hPc = "get_tags"
  /\ \E o \in TagsOutcomes :
       LET r == get_tags(request.text, o)
       IN /\ calls' = Append(calls, r)
          /\ IF r.path = "raised"
               THEN /\ hPc' = "done"
                    /\ response' = UnhandledError
                    /\ UNCHANGED tags
               ELSE /\ tags' = r.value
                    /\ hPc' = "respond"
                    /\ UNCHANGED response
  /\ UNCHANGED <<request, summary, succAtGate, nRequests>>
  /\ UNCHANGED hostVars

\* The handler inspects what it got and answers.
Respond ==
  /\ hPc = "respond"
  /\ response' =
       CASE request.endpoint = "/summarize" -> summarize_result(request.text, summary)
         [] request.endpoint = "/extract_tags" -> extract_tags_result(request.text, tags)
         [] request.endpoint = "/analyze" -> analyze_result(request.text, summary, tags)
  /\ hPc' = "done"
  /\ UNCHANGED <<request, summary, tags, calls, succAtGate, nRequests>>
  /\ UNCHANGED hostVars

\* ----------------------------------------------------------- the program
Init ==
  /\ summarization_pipeline_tf = None
  /\ kw_extractor = None
  /\ loadPc = "idle"
  /\ loadReturn = "-"
  /\ loads = 0
  /\ constructed = 0
  /\ everSucceeded = FALSE
  /\ noopLoads = 0
  /\ hPc = "idle"
  /\ request = NoRequest
  /\ summary = <<>>
  /\ tags = <<>>
  /\ calls = <<>>
  /\ response = NoResponse
  /\ succAtGate = FALSE
  /\ nRequests = 0

Next ==
  \/ LoadBegin
  \/ LoadPipelineOk
  \/ LoadPipelineRaise
  \/ LoadExtractorOk
  \/ LoadExtractorRaise
  \/ Receive
  \/ Gate
  \/ CallSummary
  \/ CallTags
  \/ Respond

Spec == Init /\ [][Next]_vars

\* ---------------------------------------------------------------- claims
\* The operations the handler has invoked, by name, in order.
Ops == [i \in 1..Len(calls) |-> calls[i].op]

\* A Model Host operation failed: it answered with one of its own sentinels.
Failed(c) == c.path \in {"unavailable", "caught"}

\* The handler is past its readiness test, which passed.
PassedGate ==
  \/ hPc \in {"get_summary", "get_tags", "respond"}
  \/ hPc = "done" /\ response.status # 503

\* C1: while no load_models call has returned True the host is not ready, and
\* a request whose readiness test runs in such a state is answered 503
\* without any Model Host operation, hence without any inference.
C1_NotLoaded503 ==
  /\ ~everSucceeded => ~are_models_ready
  /\ (hPc \notin {"idle", "gate"} /\ ~succAtGate) =>
       /\ hPc = "done"
       /\ response = HTTPException(503, UnavailableDetail)
       /\ calls = <<>>

\* A second request is answered 503 after a load attempt that failed.
C1_Witness ==
  /\ nRequests = 2
  /\ hPc = "done"
  /\ response.status = 503
  /\ loadReturn = "False"
  /\ ~everSucceeded

\* C2: once a load_models call has returned True, are_models_ready() is true
\* in every later state.
C2_ReadyStays == everSucceeded => are_models_ready

\* Ready, after a further load_models call and a provider that raised.
C2_Witness ==
  /\ everSucceeded
  /\ loads >= 2
  /\ loadPc = "idle"
  /\ \E i \in 1..Len(calls) : calls[i].path = "caught"
  /\ are_models_ready

\* C3: whenever no load_models call is in flight the two globals are both
\* None or both set; after a call that returned False both are None and the
\* host is not ready.
C3_AllOrNothing ==
  /\ loadPc = "idle" =>
       ((summarization_pipeline_tf = None) <=> (kw_extractor = None))
  /\ (loadPc = "idle" /\ loadReturn = "False") =>
       /\ summarization_pipeline_tf = None
       /\ kw_extractor = None
       /\ ~are_models_ready

\* The first load_models call built the pipeline, then the extractor raised.
C3_Witness ==
  /\ loads = 1
  /\ constructed = 2
  /\ loadPc = "idle"
  /\ loadReturn = "False"

\* C4: no Model Host operation lets an exception out; a provider's exception
\* becomes a sentinel that starts with the marker and holds the exception's
\* type name (a one-element list of such a sentinel for get_tags); every
\* request ends in 200, 503 or 500 written by the handler.
C4_NeverRaises ==
  /\ \A i \in 1..Len(calls) :
       /\ calls[i].path # "raised"
       /\ (calls[i].path = "caught" /\ calls[i].op = "get_summary") =>
            /\ Len(calls[i].value) > 0
            /\ calls[i].value[1] = Marker
            /\ Contains(calls[i].value, calls[i].type)
       /\ (calls[i].path = "caught" /\ calls[i].op = "get_tags") =>
            /\ Len(calls[i].value) = 1
            /\ calls[i].value[1][1] = Marker
            /\ Contains(calls[i].value[1], calls[i].type)
  /\ hPc = "done" =>
       /\ response.status \in {200, 503, 500}
       /\ response # UnhandledError

\* An /analyze request in which both providers raised has been answered.
C4_Witness ==
  /\ hPc = "done"
  /\ Len(calls) = 2
  /\ calls[1].path = "caught"
  /\ calls[2].path = "caught"
  /\ calls[1].type # calls[2].type
  /\ response.status = 500

Mentions(detail, what) == Contains(detail, what)

\* C5: /analyze on a ready host: only get_summary failed - 500, the detail
\* mentions the summarization failure only; only get_tags failed - 500, the
\* detail mentions the tagging failure only; both failed - the two messages
\* joined by "; "; 200 only if neither failed.
C5_AnalyzeDetail ==
  (hPc = "done" /\ request.endpoint = "/analyze" /\ Len(calls) = 2) =>
    LET sF == Failed(calls[1])
        tF == Failed(calls[2])
    IN /\ (sF /\ ~tF) =>
            /\ response.status = 500
            /\ Mentions(response.detail, "Summarization failed: ")
            /\ ~Mentions(response.detail, "Tagging failed: ")
       /\ (~sF /\ tF) =>
            /\ response.status = 500
            /\ Mentions(response.detail, "Tagging failed: ")
            /\ ~Mentions(response.detail, "Summarization failed: ")
       /\ (sF /\ tF) =>
            response = HTTPException(500,
                         <<"Summarization failed: ">> \o calls[1].value
                           \o <<"; ">>
                           \o <<"Tagging failed: ">> \o calls[2].value[1])
       /\ response.status = 200 => (~sF /\ ~tF)

\* C6: a request that passed the readiness test is answered 500 exactly when
\* a Model Host operation it invoked failed; otherwise it is answered 200
\* with the providers' outputs unchanged.
C6_500IffFailed ==
  (hPc = "done" /\ calls # <<>>) =>
    LET failed == \E i \in 1..Len(calls) : Failed(calls[i])
    IN /\ (response.status = 500) <=> failed
       /\ ~failed =>
            /\ response.status = 200
            /\ \A i \in 1..Len(calls) :
                 IF calls[i].op = "get_summary"
                   THEN response.summary = calls[i].value
                   ELSE response.tags = calls[i].value

\* C7 as stated: every response, 200, 500 and 503 alike, has an
\* original_text field equal to the submitted text.
C7_EchoEveryResponse ==
  hPc = "done" =>
    /\ "original_text" \in DOMAIN response
    /\ response.original_text = request.text

\* C7 amended: every 200 response has original_text equal to the submitted
\* text; a 500 or 503 response has a status and a detail and nothing else.
C7_EchoOn200 ==
  hPc = "done" =>
    IF response.status = 200
      THEN /\ "original_text" \in DOMAIN response
           /\ response.original_text = request.text
      ELSE DOMAIN response = {"status", "detail"}

\* A text that holds the marker has been echoed in a 200 response.
C7_Witness ==
  /\ hPc = "done"
  /\ response.status = 200
  /\ Contains(request.text, Marker)
  /\ response.original_text = request.text

\* C8: a handler that has passed its readiness test never gets the host's
\* "not available" sentinel, and each provider object it invokes is the one
\* loaded at that time and still loaded.
C8_NoUnavailableAfterGate ==
  /\ \A i \in 1..Len(calls) :
       /\ calls[i].path # "unavailable"
       /\ calls[i].inst # None
       /\ calls[i].inst = IF calls[i].op = "get_summary"
                            THEN summarization_pipeline_tf
                            ELSE kw_extractor
  /\ (hPc = "done" /\ response.status = 500) =>
       /\ ~Contains(response.detail, SummaryUnavailable[2])
       /\ ~Contains(response.detail, TagsUnavailable[2])

\* A 500 has been answered on a host that load_models was called on again.
C8_Witness ==
  /\ hPc = "done"
  /\ response.status = 500
  /\ Len(calls) = 2
  /\ noopLoads >= 1
  /\ loads = MaxLoads

\* C9: an /analyze handler that passed its readiness test calls get_summary
\* once, then get_tags once, whatever get_summary returned, and writes its
\* response only after both.
C9_AnalyzeCallsBoth ==
  (request.endpoint = "/analyze" /\ PassedGate) =>
    /\ hPc = "get_summary" => Ops = <<>>
    /\ hPc = "get_tags" => Ops = <<"get_summary">>
    /\ hPc \in {"respond", "done"} => Ops = <<"get_summary", "get_tags">>
    /\ hPc # "done" => response = NoResponse

\* get_summary failed, and get_tags was called all the same and returned.
C9_Witness ==
  /\ request.endpoint = "/analyze"
  /\ hPc = "done"
  /\ Len(calls) = 2
  /\ calls[1].path = "caught"
  /\ calls[2].path = "returned"

\* C10: a load_models call made while both globals are set returns True at
\* once, calls no constructor and leaves both globals, and everything else,
\* as they were.
C10_LoadedLoadIsNoop ==
  [][(loads' = loads + 1 /\ summarization_pipeline_tf # None /\ kw_extractor # None) =>
       /\ loadPc' = "idle"
       /\ loadReturn' = "True"
       /\ constructed' = constructed
       /\ summarization_pipeline_tf' = summarization_pipeline_tf
       /\ kw_extractor' = kw_extractor
       /\ handlerVars' = handlerVars]_vars

\* load_models has been called twice on a loaded host; the objects are those
\* the first call built.
C10_Witness ==
  /\ noopLoads >= 2
  /\ constructed = 2
  /\ summarization_pipeline_tf = 1
  /\ kw_extractor = 2

====
